---- MODULE Spec2Model ----
(***************************************************************************)
(* Decision wheel (pick-for-me): the SpinWheel component, the App state    *)
(* that owns the option list, and the OptionEditor handlers that change it.*)
(*                                                                         *)
(* Angles are exact rationals held as integers in units of 1/Deg degree:   *)
(* every slice angle 360/N and half slice 180/N (N <= MaxOptions) is a     *)
(* whole number of units, so floor, % and comparisons are computed as the  *)
(* code computes them on the exact values.                                 *)
(*                                                                         *)
(* One action is one event handler (or timer callback) together with the   *)
(* React render and effect pass that follows it.                           *)
(***************************************************************************)
EXTENDS Integers, Sequences, FiniteSets, TLC

(* ---------------------------------------------------------------------- *)
(* Bounds of the model                                                     *)
(* ---------------------------------------------------------------------- *)
\* number of distinct labels a user can type (so lists have 2..NumLabels entries)
NumLabels == 3
\* settled spins per behaviour (the accumulated angle grows with each)
MaxSpins == 1
\* depth of the undo stack explored
MaxUndo == 1
\* history clicks per behaviour (each takes a fresh Date.now() request id)
MaxClicks == 1
\* Math.random() in `spins` is drawn from j/3, j in 0..SpinSteps-1
SpinSteps == 2
MaxAddTimers == 1

(* ---------------------------------------------------------------------- *)
(* Program constants                                                       *)
(* ---------------------------------------------------------------------- *)
\* OptionEditor.addOption: at most 12 options
MaxOptions == 12
\* history keeps 5 entries
HistoryLimit == 5
\* recent presets keep 5 entries
RecentLimit == 5

\* labels a user types; "yes", "no" stand for the default list
LabelNames == <<"yes", "no", "a", "b", "c", "d", "e", "f", "g", "h", "i", "j">>
Labels == {LabelNames[i] : i \in 1..(IF NumLabels < MaxOptions THEN NumLabels ELSE MaxOptions)}

\* texts typed into the add input: one of the list's names, "k", a label
\* outside a full list, and nothing but blanks (trimmed to "")
EditorLabels == {LabelNames[3], "k", ""}
\* lists one label short of the cap and at the cap
LongLists == {SubSeq(LabelNames, 1, n) : n \in (MaxOptions - 1)..MaxOptions}

\* PRESETS, cut to the entry that equals the default list
PRESETS == << [name |-> "yesOrNo", options |-> <<"yes", "no">>] >>

RECURSIVE Gcd(_, _)
Gcd(a, b) == IF b = 0 THEN a ELSE Gcd(b, a % b)

RECURSIVE LcmUpTo(_)
LcmUpTo(n) == IF n <= 1 THEN 1 ELSE LET l == LcmUpTo(n - 1) IN (l * n) \div Gcd(l, n)

\* units per degree
Deg == LcmUpTo(MaxOptions)
\* 360 degrees
Full == 360 * Deg

\* selectedIndex === null, indexOf(...) === -1
Null == -1
\* historyHighlight === null / lastHistoryRequestIdRef.current === null
NoRequest == 0
NoHighlight == [options |-> <<>>, index |-> 0, requestId |-> NoRequest]

(* ---------------------------------------------------------------------- *)
(* Helpers on lists                                                        *)
(* ---------------------------------------------------------------------- *)
Range(s) == {s[i] : i \in 1..Len(s)}

\* all lists of distinct labels with lo..hi entries
DistinctLists(lo, hi) ==
  {s \in UNION {[1..n -> Labels] : n \in lo..hi} : \A i, j \in 1..Len(s) : i # j => s[i] # s[j]}

\* Array.prototype.indexOf, 0-based, -1 when absent
IndexOf(s, x) ==
  IF x \in Range(s) THEN (CHOOSE i \in 1..Len(s) : s[i] = x /\ \A j \in 1..(i - 1) : s[j] # x) - 1
  ELSE -1

\* options[i] with a 0-based index; "undefined" outside the array
At(s, i) == IF i >= 0 /\ i < Len(s) THEN s[i + 1] ELSE "undefined"

RemoveAt(s, i) == [k \in 1..(Len(s) - 1) |-> IF k < i THEN s[k] ELSE s[k + 1]]

\* the first n entries, Array.prototype.slice(0, n)
Take(s, n) == IF Len(s) <= n THEN s ELSE SubSeq(s, 1, n)

(* ---------------------------------------------------------------------- *)
(* Wheel geometry                                                          *)
(* ---------------------------------------------------------------------- *)
\* JavaScript %: the sign of the result is the sign of the dividend
JsMod(a, m) == IF a >= 0 THEN a % m ELSE -((-a) % m)

sliceAngle(n) == Full \div n

calculateIndexFromRotation(totalRotation, n) ==
  IF n <= 0 THEN 0
  ELSE (JsMod(Full - JsMod(totalRotation, Full), Full) \div sliceAngle(n)) % n

targetRotation(targetIndex, n) ==
  JsMod(90 * Deg - targetIndex * sliceAngle(n) - sliceAngle(n) \div 2 + Full, Full)

\* Math.random() is u / RandomUnits for u in 0..RandomUnits-1: a grid of equally
\* likely values that every number of options up to NumLabels + 1 divides
RandomUnits == LcmUpTo(NumLabels + 1)

\* Math.round in place of Math.floor
randomIndex_Round(u, n) == (2 * u * n + RandomUnits) \div (2 * RandomUnits)

\* Math.floor(Math.random() * options.length)
randomIndex(u, n) == (u * n) \div RandomUnits

\* spins * 360 for the j-th value of Math.random()
spinsAngle(reduced, j) ==
  IF reduced THEN 4 * Full + (j * 540 * Deg) \div 3
  ELSE 5 * Full + (j * 720 * Deg) \div 3

spinTotalRotation(rot, targetIndex, n, reduced, j) ==
  LET currentRotationMod == JsMod(rot, Full)
      deltaRotation == JsMod(targetRotation(targetIndex, n) - currentRotationMod + Full, Full)
  IN rot + spinsAngle(reduced, j) + deltaRotation

\* jumpTotalRotation always turning forward
jumpTotalRotation_ForwardOnly(rot, targetIndex, n) ==
  LET currentRotationMod == JsMod(JsMod(rot, Full) + Full, Full)
      d == JsMod(targetRotation(targetIndex, n) - currentRotationMod + Full, Full)
  IN rot + d

jumpTotalRotation(rot, targetIndex, n) ==
  LET currentRotationMod == JsMod(JsMod(rot, Full) + Full, Full)
      d == JsMod(targetRotation(targetIndex, n) - currentRotationMod + Full, Full)
      deltaRotation == IF d > 180 * Deg THEN d - Full ELSE d
  IN rot + deltaRotation

(* ---------------------------------------------------------------------- *)
(* State                                                                   *)
(* ---------------------------------------------------------------------- *)
VARIABLES
  \* App
  options,                  \* the option list
  optionsHistory,           \* the undo stack
  history,                  \* result history, newest first
  historyHighlight,         \* the replay request handed to the wheel, or NoHighlight
  \* SpinWheel
  isSpinning,
  selectedIndex,            \* 0-based index, or Null
  rotation,                 \* accumulated angle, in units
  prevOptionsRef,
  lastHistoryRequestIdRef,
  spinTimers,               \* pending settle callbacks, each with the values its closure holds
  \* OptionEditor
  isApplyingPresetRef,
  lastAppliedPresetRef,
  recentPresets,            \* recently spun option lists, most recent first
  customSceneNames,         \* custom scene name of an option list, "none" where there is none
  addTimers,                \* pending deferred adds, each with the values its closure holds
  \* environment and observers
  now,                      \* Date.now(), counted in history clicks
  spinStartCalls,           \* invocations of onSpinStart
  results,                  \* the invocations of onResult, in order
  \* input and output of the pure geometry functions
  geom

appVars == <<options, optionsHistory, history, historyHighlight>>
wheelVars == <<isSpinning, selectedIndex, rotation, prevOptionsRef, lastHistoryRequestIdRef>>
editorVars == <<isApplyingPresetRef, lastAppliedPresetRef>>
vars == <<options, optionsHistory, history, historyHighlight, isSpinning, selectedIndex,
          rotation, prevOptionsRef, lastHistoryRequestIdRef, spinTimers,
          isApplyingPresetRef, lastAppliedPresetRef, now, spinStartCalls, results, geom,
          recentPresets, customSceneNames, addTimers>>

\* what one render of SpinWheel sees: its props, its state and its refs
Wheel ==
  [options |-> options, historyHighlight |-> historyHighlight, isSpinning |-> isSpinning,
   selectedIndex |-> selectedIndex, rotation |-> rotation, prevOptionsRef |-> prevOptionsRef,
   lastHistoryRequestIdRef |-> lastHistoryRequestIdRef]

(* ---------------------------------------------------------------------- *)
(* SpinWheel effects. r is the render the effect closes over, w the state  *)
(* and refs as the effects of this pass have left them so far.             *)
(* ---------------------------------------------------------------------- *)
\* useEffect(..., [options.length])
optionsLengthEffect(w, lengthChanged) ==
  IF lengthChanged THEN [w EXCEPT !.selectedIndex = Null] ELSE w

\* reorderSyncEffect with the adjustment's sign turned round
reorderSyncEffect_WrongSign(r, w) ==
  LET n == Len(r.options)
      currentIndex == calculateIndexFromRotation(r.rotation, n)
      currentOption == At(w.prevOptionsRef, currentIndex)
      newIndex == IndexOf(r.options, currentOption)
      rotationAdjustment == (newIndex - currentIndex) * sliceAngle(n)
  IN IF n < 2 THEN w
     ELSE IF /\ n = Len(w.prevOptionsRef)
             /\ r.options # w.prevOptionsRef
             /\ ~r.isSpinning
             /\ newIndex # -1
             /\ newIndex # currentIndex
          THEN [w EXCEPT !.rotation = r.rotation + rotationAdjustment,
                         !.prevOptionsRef = r.options]
          ELSE [w EXCEPT !.prevOptionsRef = r.options]

\* useEffect(..., [options, isSpinning, controls, rotation])
reorderSyncEffect(r, w) ==
  LET n == Len(r.options)
      currentIndex == calculateIndexFromRotation(r.rotation, n)
      currentOption == At(w.prevOptionsRef, currentIndex)
      newIndex == IndexOf(r.options, currentOption)
      rotationAdjustment == (0 - (newIndex - currentIndex)) * sliceAngle(n)
  IN IF n < 2 THEN w
     ELSE IF /\ n = Len(w.prevOptionsRef)
             /\ r.options # w.prevOptionsRef
             /\ ~r.isSpinning
             /\ newIndex # -1
             /\ newIndex # currentIndex
          THEN [w EXCEPT !.rotation = r.rotation + rotationAdjustment,
                         !.prevOptionsRef = r.options]
          ELSE [w EXCEPT !.prevOptionsRef = r.options]

\* historyHighlightEffect comparing only the lengths of snapshot and list
historyHighlightEffect_LengthOnly(r, w) ==
  LET hh == r.historyHighlight
      n == Len(r.options)
      clamped == IF hh.index < 0 THEN 0 ELSE hh.index
      targetIndex == IF clamped < n - 1 THEN clamped ELSE n - 1
  IN IF \/ hh = NoHighlight
        \/ r.isSpinning
        \/ w.lastHistoryRequestIdRef = hh.requestId
        \/ Len(hh.options) # n
        \/ n < 2
     THEN w
     ELSE [w EXCEPT !.rotation = jumpTotalRotation(r.rotation, targetIndex, n),
                    !.selectedIndex = targetIndex,
                    !.lastHistoryRequestIdRef = hh.requestId]

\* the historyHighlight effect without its isSpinning guard
historyHighlightEffect_NoSpinGuard(r, w) ==
  LET hh == r.historyHighlight
      n == Len(r.options)
      clamped == IF hh.index < 0 THEN 0 ELSE hh.index
      targetIndex == IF clamped < n - 1 THEN clamped ELSE n - 1
  IN IF \/ hh = NoHighlight
        \/ w.lastHistoryRequestIdRef = hh.requestId
        \/ hh.options # r.options
        \/ n < 2
     THEN w
     ELSE [w EXCEPT !.rotation = jumpTotalRotation(r.rotation, targetIndex, n),
                    !.selectedIndex = targetIndex,
                    !.lastHistoryRequestIdRef = hh.requestId]

\* useEffect(..., [historyHighlight, options, rotation, isSpinning, controls])
historyHighlightEffect(r, w) ==
  LET hh == r.historyHighlight
      n == Len(r.options)
      clamped == IF hh.index < 0 THEN 0 ELSE hh.index
      targetIndex == IF clamped < n - 1 THEN clamped ELSE n - 1
  IN IF \/ hh = NoHighlight
        \/ r.isSpinning
        \/ w.lastHistoryRequestIdRef = hh.requestId
        \/ hh.options # r.options
        \/ n < 2
     THEN w
     ELSE [w EXCEPT !.rotation = jumpTotalRotation(r.rotation, targetIndex, n),
                    !.selectedIndex = targetIndex,
                    !.lastHistoryRequestIdRef = hh.requestId]

\* the effects of one render, in the order the component declares them
runEffects(r, lengthChanged) ==
  historyHighlightEffect(r, reorderSyncEffect(r, optionsLengthEffect(r, lengthChanged)))

\* a render with its effects, and the render the effects' state updates cause
commit(r, lengthChanged) == runEffects(runEffects(r, lengthChanged), FALSE)

(* ---------------------------------------------------------------------- *)
(* App                                                                     *)
(* ---------------------------------------------------------------------- *)
applyOptions(prev, stack, next, trackHistory) ==
  IF Len(next) = 0 \/ prev = next
  THEN [options |-> prev, optionsHistory |-> stack]
  ELSE [options |-> next,
        optionsHistory |-> IF trackHistory THEN Append(stack, prev) ELSE stack]

\* onChange tracking every change
onChange_AlwaysTracked(prev, stack, next) == applyOptions(prev, stack, next, TRUE)

\* the onChange the App hands to OptionEditor
onChange(prev, stack, next) ==
  LET isReorder == /\ Len(next) = Len(prev)
                   /\ \A i \in 1..Len(next) : next[i] \in Range(prev)
                   /\ next # prev
  IN applyOptions(prev, stack, next, ~isReorder)

\* canUndo = optionsHistory.length > 0
canUndo(stack) == Len(stack) > 0

\* undoLastOptionsChange leaving the restored list on the stack
undoLastOptionsChange_KeepsStack(prev, stack) ==
  IF Len(stack) = 0 THEN [options |-> prev, optionsHistory |-> stack]
  ELSE [options |-> stack[Len(stack)], optionsHistory |-> stack]

undoLastOptionsChange(prev, stack) ==
  IF Len(stack) = 0 THEN [options |-> prev, optionsHistory |-> stack]
  ELSE [options |-> stack[Len(stack)], optionsHistory |-> SubSeq(stack, 1, Len(stack) - 1)]

\* addRecentPreset putting the list in front without looking for it
addRecentPreset_AlwaysNew(presets, opts) == Take(<<opts>> \o presets, RecentLimit)

\* addRecentPreset: move the list to the front, or put it there, and keep 5
addRecentPreset(presets, opts) ==
  LET existingIndex == IndexOf(presets, opts)
      updatedPresets ==
        IF existingIndex # -1
        THEN <<presets[existingIndex + 1]>> \o SubSeq(presets, 1, existingIndex)
               \o SubSeq(presets, existingIndex + 2, Len(presets))
        ELSE <<opts>> \o presets
  IN Take(updatedPresets, RecentLimit)

\* names a user gives to a scene
SceneNames == {"work"}

\* the option lists a scene name can be kept for
SceneKeys == DistinctLists(2, NumLabels)

\* customSceneNames = {}
NoSceneNames == [k \in SceneKeys |-> "none"]

\* name of the first preset with these options, "none" (undefined) when no preset matches
presetName(opts) ==
  IF \E p \in 1..Len(PRESETS) : PRESETS[p].options = opts
  THEN PRESETS[CHOOSE p \in 1..Len(PRESETS) :
                 PRESETS[p].options = opts /\ \A q \in 1..(p - 1) : PRESETS[q].options # opts].name
  ELSE "none"

\* custom name first, then preset name, else "none" (undefined)
getSceneName(names, opts) ==
  IF opts \in DOMAIN names /\ names[opts] # "none" THEN names[opts] ELSE presetName(opts)

\* the history after saveCustomSceneName(optionsKey, name)
saveCustomSceneName(hist, optionsKey, trimmedName) ==
  [i \in 1..Len(hist) |->
     IF hist[i].options = optionsKey THEN [hist[i] EXCEPT !.sceneName = trimmedName] ELSE hist[i]]

\* the history after deleteCustomSceneName(optionsKey)
deleteCustomSceneName(hist, optionsKey) ==
  [i \in 1..Len(hist) |->
     IF hist[i].options = optionsKey
     THEN [hist[i] EXCEPT !.sceneName = presetName(hist[i].options)] ELSE hist[i]]

\* names and opts are customSceneNames and the option list of the render whose
\* handleResult the wheel was given
handleResult(hist, names, opts, result, index) ==
  LET item == [options |-> opts, result |-> result, index |-> index,
               sceneName |-> getSceneName(names, opts)]
      keep(h) == ~(h.result = item.result /\ h.sceneName = item.sceneName
                   /\ h.options = item.options)
  IN Take(<<item>> \o SelectSeq(hist, keep), HistoryLimit)

(* ---------------------------------------------------------------------- *)
(* OptionEditor: the list each handler hands to onChange (the list itself  *)
(* when the handler returns early)                                         *)
(* ---------------------------------------------------------------------- *)
\* addOption without the limit of 12
addOption_NoLimit(opts, trimmedOption) ==
  IF trimmedOption = "" \/ trimmedOption \in Range(opts) THEN opts
  ELSE Append(opts, trimmedOption)

addOption(opts, trimmedOption) ==
  IF trimmedOption = "" \/ Len(opts) >= MaxOptions \/ trimmedOption \in Range(opts) THEN opts
  ELSE Append(opts, trimmedOption)

removeOption(opts, index) ==
  IF Len(opts) > 2 /\ index >= 0 /\ index < Len(opts) THEN RemoveAt(opts, index + 1)
  ELSE opts

saveEdit(opts, editingIndex, trimmedValue) ==
  IF /\ trimmedValue # ""
     /\ editingIndex >= 0
     /\ editingIndex < Len(opts)
     /\ ~\E idx \in 0..(Len(opts) - 1) : At(opts, idx) = trimmedValue /\ idx # editingIndex
  THEN [opts EXCEPT ![editingIndex + 1] = trimmedValue]
  ELSE opts

\* the 200 ms timer of cancelAddNew: the render of the blur had isAddingNew
\* true (the input is shown only then) and isProcessingAddRef is false between
\* handlers, so the callback calls the addOption of that render, which reads
\* that render's options and newOption and calls that render's onChange;
\* applyOptions' updater compares and pushes the list current at the firing
deferredAdd(prev, stack, closureOptions, closureNewOption) ==
  LET next == addOption(closureOptions, closureNewOption)
      isReorder == /\ Len(next) = Len(closureOptions)
                   /\ \A i \in 1..Len(next) : next[i] \in Range(closureOptions)
                   /\ next # closureOptions
  IN IF next = closureOptions
     THEN [options |-> prev, optionsHistory |-> stack]
     ELSE applyOptions(prev, stack, next, ~isReorder)

\* applyPreset goes on to onChange only past its two guards
presetAccepted(applying, lastApplied, presetOptions) ==
  ~applying /\ lastApplied # presetOptions

\* the list and undo stack a call of applyPreset leaves
applyPreset(prev, stack, applying, lastApplied, presetOptions) ==
  IF presetAccepted(applying, lastApplied, presetOptions)
  THEN onChange(prev, stack, presetOptions)
  ELSE [options |-> prev, optionsHistory |-> stack]

(* ---------------------------------------------------------------------- *)
(* SpinWheel: spin and its settle callback                                 *)
(* ---------------------------------------------------------------------- *)
\* spin() without its busy guard
spinAccepted_NoBusyGuard(w) == Len(w.options) >= 2

\* spin() with its guard on the number of options off by one (length < 1)
spinAccepted_LengthGuardOffByOne(w) == ~w.isSpinning /\ Len(w.options) >= 1

spinAccepted(w) == ~w.isSpinning /\ Len(w.options) >= 2

\* the closure of the setTimeout callback scheduled by spin()
spinTimer(w, targetIndex, reduced, j) ==
  [totalRotation |-> spinTotalRotation(w.rotation, targetIndex, Len(w.options), reduced, j),
   options |-> w.options,
   targetIndex |-> targetIndex,
   customSceneNames |-> customSceneNames]

\* spin() without setIsSpinning(true)
spinStart_NotSpinning(w) == [w EXCEPT !.selectedIndex = Null]

spinStart(w) == [w EXCEPT !.isSpinning = TRUE, !.selectedIndex = Null]

\* spin() without its call of onSpinStart
onSpinStart_Skipped(calls) == calls

\* if (onSpinStart) onSpinStart(): the App passes handleSpinStart
onSpinStart(calls) == calls + 1

\* the settle callback reading the live option list instead of its closure's
settleIndex_LiveLength(tm) == calculateIndexFromRotation(tm.totalRotation, Len(options))

\* calculateIndexFromRotation as the callback's closure holds it
settleIndex(tm) == calculateIndexFromRotation(tm.totalRotation, Len(tm.options))

\* the settle callback without setIsSpinning(false)
settleCallback_StaysSpinning(w, tm) ==
  [w EXCEPT !.rotation = tm.totalRotation,
            !.selectedIndex = calculateIndexFromRotation(tm.totalRotation, Len(tm.options))]

settleCallback(w, tm) ==
  [w EXCEPT !.rotation = tm.totalRotation,
            !.selectedIndex = settleIndex(tm),
            !.isSpinning = FALSE]

\* the settle callback reporting its result twice
onResultCalls_Twice(tm) ==
  LET idx == calculateIndexFromRotation(tm.totalRotation, Len(tm.options))
      call == [result |-> At(tm.options, idx), index |-> idx]
  IN <<call, call>>

\* the callback reading the label from the list of the latest render
onResultCalls_LiveOptions(tm) ==
  << [result |-> At(options, settleIndex(tm)), index |-> settleIndex(tm)] >>

\* the invocations of onResult the callback makes:
\* onResult(options[calculatedIndex], calculatedIndex)
onResultCalls(tm) == << [result |-> At(tm.options, settleIndex(tm)), index |-> settleIndex(tm)] >>

\* the App's handleResult, as the callback's closure holds it, on each invocation
RECURSIVE handleResults(_, _, _, _)
handleResults(hist, names, opts, calls) ==
  IF calls = <<>> THEN hist
  ELSE handleResults(handleResult(hist, names, opts, Head(calls).result, Head(calls).index),
                     names, opts, Tail(calls))

(* ---------------------------------------------------------------------- *)
(* Actions                                                                 *)
(* ---------------------------------------------------------------------- *)
\* the render of r (props and state after a handler) and its effects
Render(r) ==
  LET f == commit(r, Len(r.options) # Len(options))
  IN /\ options' = r.options
     /\ historyHighlight' = r.historyHighlight
     /\ isSpinning' = f.isSpinning
     /\ selectedIndex' = f.selectedIndex
     /\ rotation' = f.rotation
     /\ prevOptionsRef' = f.prevOptionsRef
     /\ lastHistoryRequestIdRef' = f.lastHistoryRequestIdRef

\* setOptions / setOptionsHistory with the outcome res of applyOptions or undo
OptionsChange(res) ==
  /\ Len(res.optionsHistory) <= MaxUndo
  /\ optionsHistory' = res.optionsHistory
  /\ Render([Wheel EXCEPT !.options = res.options])
  /\ UNCHANGED <<history, spinTimers, now, spinStartCalls, results, geom,
                   recentPresets, customSceneNames, addTimers>>

\* Enter in the add input with text typed
AddText(text) ==
  /\ addOption(options, text) # options
  /\ OptionsChange(onChange(options, optionsHistory, addOption(options, text)))
  /\ UNCHANGED editorVars

AddOption == \E text \in Labels : AddText(text)

RemoveOption ==
  \E index \in 0..(Len(options) - 1) :
    /\ removeOption(options, index) # options
    /\ OptionsChange(onChange(options, optionsHistory, removeOption(options, index)))
    /\ UNCHANGED editorVars

SaveEdit ==
  \E editingIndex \in 0..(Len(options) - 1), text \in Labels :
    /\ saveEdit(options, editingIndex, text) # options
    /\ OptionsChange(onChange(options, optionsHistory, saveEdit(options, editingIndex, text)))
    /\ UNCHANGED editorVars

ApplyPreset ==
  \E p \in 1..Len(PRESETS) :
    /\ presetAccepted(isApplyingPresetRef, lastAppliedPresetRef, PRESETS[p].options)
    /\ isApplyingPresetRef' = TRUE
    /\ lastAppliedPresetRef' = PRESETS[p].options
    /\ OptionsChange(applyPreset(options, optionsHistory, isApplyingPresetRef,
                                 lastAppliedPresetRef, PRESETS[p].options))

\* the 300 ms timer of applyPreset
PresetApplied ==
  /\ isApplyingPresetRef
  /\ isApplyingPresetRef' = FALSE
  /\ UNCHANGED <<appVars, wheelVars, spinTimers, lastAppliedPresetRef,
                 now, spinStartCalls, results, geom,
                   recentPresets, customSceneNames, addTimers>>

Undo ==
  /\ canUndo(optionsHistory)
  /\ OptionsChange(undoLastOptionsChange(options, optionsHistory))
  /\ UNCHANGED editorVars

\* click on a history pill
HistoryClick ==
  \E k \in 1..Len(history) :
    /\ now < MaxClicks
    /\ now' = now + 1
    /\ Render([Wheel EXCEPT !.options = history[k].options,
                            !.historyHighlight = [options |-> history[k].options,
                                                  index |-> history[k].index,
                                                  requestId |-> now + 1]])
    /\ UNCHANGED <<optionsHistory, history, spinTimers, editorVars,
                   spinStartCalls, results, geom,
                   recentPresets, customSceneNames, addTimers>>

\* prefersReducedMotion mirrors the media query of the environment, which can change
\* between any two spins: spin() reads it as an input
Spin ==
  IF ~spinAccepted(Wheel) THEN UNCHANGED vars
  ELSE \E u \in 0..(RandomUnits - 1), j \in 0..(SpinSteps - 1),
          prefersReducedMotion \in BOOLEAN :
         /\ Len(results) < MaxSpins
         /\ spinStartCalls' = onSpinStart(spinStartCalls)
         /\ recentPresets' = addRecentPreset(recentPresets, options)
         /\ spinTimers' = Append(spinTimers,
                                 spinTimer(Wheel, randomIndex(u, Len(options)),
                                           prefersReducedMotion, j))
         /\ Render(spinStart(Wheel))
         /\ UNCHANGED <<optionsHistory, history, editorVars, now,
                        results, geom,
                        customSceneNames, addTimers>>

Settle ==
  \E k \in 1..Len(spinTimers) :
    /\ spinTimers' = RemoveAt(spinTimers, k)
    /\ history' = handleResults(history, spinTimers[k].customSceneNames, spinTimers[k].options,
                                onResultCalls(spinTimers[k]))
    /\ results' = results \o onResultCalls(spinTimers[k])
    /\ Render(settleCallback(Wheel, spinTimers[k]))
    /\ UNCHANGED <<optionsHistory, editorVars, now, spinStartCalls, geom,
                   recentPresets, customSceneNames, addTimers>>

GeomIdle == [n |-> 2, t |-> 0, targetRotation |-> 0, index |-> 0, done |-> FALSE]

\* blur of the add input with text typed: cancelAddNew starts the 200 ms timer
BlurAdd ==
  \E text \in EditorLabels :
    /\ text # ""
    /\ Len(addTimers) < MaxAddTimers
    /\ addTimers' = Append(addTimers, [options |-> options, newOption |-> text])
    /\ UNCHANGED <<appVars, wheelVars, editorVars, spinTimers, now, spinStartCalls,
                   results, geom, recentPresets, customSceneNames>>

\* the timer of cancelAddNew fires
DeferredAdd ==
  /\ Len(addTimers) > 0
  /\ LET res == deferredAdd(options, optionsHistory,
                            addTimers[1].options, addTimers[1].newOption)
     IN /\ Len(res.optionsHistory) <= MaxUndo
        /\ optionsHistory' = res.optionsHistory
        /\ Render([Wheel EXCEPT !.options = res.options])
  /\ addTimers' = Tail(addTimers)
  /\ UNCHANGED <<history, spinTimers, editorVars, now, spinStartCalls, results, geom,
                 recentPresets, customSceneNames>>

Init ==
  /\ options \in DistinctLists(2, NumLabels)
  /\ optionsHistory = <<>>
  /\ history = <<>>
  /\ historyHighlight = NoHighlight
  /\ isSpinning = FALSE
  /\ selectedIndex = Null
  /\ rotation = 0
  /\ prevOptionsRef = options
  /\ lastHistoryRequestIdRef = NoRequest
  /\ spinTimers = <<>>
  /\ isApplyingPresetRef = FALSE
  /\ lastAppliedPresetRef = <<>>
  /\ now = 0
  /\ spinStartCalls = 0
  /\ results = <<>>
  /\ recentPresets = <<>>
  /\ customSceneNames = NoSceneNames
  /\ addTimers = <<>>
  /\ geom = GeomIdle

Next ==
  \/ AddOption
  \/ RemoveOption
  \/ SaveEdit
  \/ ApplyPreset
  \/ PresetApplied
  \/ Undo
  \/ HistoryClick
  \/ Spin
  \/ Settle

Spec == Init /\ [][Next]_vars

(* ---------------------------------------------------------------------- *)
(* The SpinWheel component on its own: its props are owned by a caller     *)
(* that may hand it any option list                                        *)
(* ---------------------------------------------------------------------- *)
SetOptionsProp ==
  \E next \in DistinctLists(0, NumLabels) :
    /\ next # options
    /\ Render([Wheel EXCEPT !.options = next])
    /\ UNCHANGED <<optionsHistory, history, spinTimers, editorVars, now, spinStartCalls,
                   results, geom,
                   recentPresets, customSceneNames, addTimers>>

InitWheel ==
  /\ options \in DistinctLists(0, NumLabels)
  /\ optionsHistory = <<>>
  /\ history = <<>>
  /\ historyHighlight = NoHighlight
  /\ isSpinning = FALSE
  /\ selectedIndex = Null
  /\ rotation = 0
  /\ prevOptionsRef = options
  /\ lastHistoryRequestIdRef = NoRequest
  /\ spinTimers = <<>>
  /\ isApplyingPresetRef = FALSE
  /\ lastAppliedPresetRef = <<>>
  /\ now = 0
  /\ spinStartCalls = 0
  /\ results = <<>>
  /\ recentPresets = <<>>
  /\ customSceneNames = NoSceneNames
  /\ addTimers = <<>>
  /\ geom = GeomIdle

NextWheel ==
  \/ SetOptionsProp
  \/ Spin
  \/ Settle

SpecWheel == InitWheel /\ [][NextWheel]_vars

(* ---------------------------------------------------------------------- *)
(* The SpinWheel component with a caller that hands it replay requests of  *)
(* any snapshot and index, each with a fresh request id                    *)
(* ---------------------------------------------------------------------- *)
SetHighlightProp ==
  \E snapshot \in DistinctLists(0, NumLabels), index \in (0 - 1)..NumLabels :
    /\ now < MaxClicks
    /\ now' = now + 1
    /\ Render([Wheel EXCEPT !.historyHighlight = [options |-> snapshot, index |-> index,
                                                  requestId |-> now + 1]])
    /\ UNCHANGED <<optionsHistory, history, spinTimers, editorVars, spinStartCalls,
                   results, geom,
                   recentPresets, customSceneNames, addTimers>>

NextJump ==
  \/ SetHighlightProp
  \/ Spin
  \/ Settle

SpecJump == InitWheel /\ [][NextJump]_vars

(* ---------------------------------------------------------------------- *)
(* The App started on a stored history: loadHistory returns the entry an   *)
(* earlier session saved                                                   *)
(* ---------------------------------------------------------------------- *)
\* the entries handleResult writes for one settled spin
StoredEntries ==
  UNION {{[options |-> o, result |-> At(o, i), index |-> i, sceneName |-> getSceneName(NoSceneNames, o)] :
            i \in 0..(Len(o) - 1)} : o \in DistinctLists(2, NumLabels)}

\* the session before ended on the spin of the stored entry: loadOptions returns
\* the list that spin was made on
InitStored ==
  /\ history \in {<<e>> : e \in StoredEntries}
  /\ options = history[1].options
  /\ optionsHistory = <<>>
  /\ historyHighlight = NoHighlight
  /\ isSpinning = FALSE
  /\ selectedIndex = Null
  /\ rotation = 0
  /\ prevOptionsRef = options
  /\ lastHistoryRequestIdRef = NoRequest
  /\ spinTimers = <<>>
  /\ isApplyingPresetRef = FALSE
  /\ lastAppliedPresetRef = <<>>
  /\ now = 0
  /\ spinStartCalls = 0
  /\ results = <<>>
  /\ recentPresets = <<>>
  /\ customSceneNames = NoSceneNames
  /\ addTimers = <<>>
  /\ geom = GeomIdle

SpecStored == InitStored /\ [][Next]_vars

(* ---------------------------------------------------------------------- *)
(* The App started on a stored history, with the scene names of history    *)
(* entries edited                                                          *)
(* ---------------------------------------------------------------------- *)
\* Enter in the scene name input of history entry k, with a name typed
SaveCustomSceneName ==
  \E k \in 1..Len(history), name \in SceneNames :
    /\ customSceneNames' = [customSceneNames EXCEPT ![history[k].options] = name]
    /\ history' = saveCustomSceneName(history, history[k].options, name)
    /\ UNCHANGED <<options, optionsHistory, historyHighlight, wheelVars, spinTimers,
                   editorVars, now, spinStartCalls, results, geom, recentPresets, addTimers>>

\* Enter on an empty scene name input of history entry k, or its delete button
DeleteCustomSceneName ==
  \E k \in 1..Len(history) :
    /\ customSceneNames' = [customSceneNames EXCEPT ![history[k].options] = "none"]
    /\ history' = deleteCustomSceneName(history, history[k].options)
    /\ UNCHANGED <<options, optionsHistory, historyHighlight, wheelVars, spinTimers,
                   editorVars, now, spinStartCalls, results, geom, recentPresets, addTimers>>

\* spins, replays and scene name edits; the option list is changed by replays only
NextScene ==
  \/ Spin
  \/ Settle
  \/ HistoryClick
  \/ SaveCustomSceneName
  \/ DeleteCustomSceneName

SpecScene == InitStored /\ [][NextScene]_vars

(* ---------------------------------------------------------------------- *)
(* The App started on stored recent presets: loadRecentPresets returns the *)
(* list addRecentPreset saved in earlier sessions                          *)
(* ---------------------------------------------------------------------- *)
\* sequences of at most n different members of S
RECURSIVE InjectiveSeqs(_, _)
InjectiveSeqs(S, n) ==
  IF n = 0 THEN {<<>>}
  ELSE LET shorter == InjectiveSeqs(S, n - 1)
       IN shorter \cup
          UNION {{Append(q, x) : x \in S \ Range(q)} : q \in {r \in shorter : Len(r) = n - 1}}

\* stored lists of up to RecentLimit different two-label option lists
StoredRecentPresets == InjectiveSeqs(DistinctLists(2, 2), RecentLimit)

InitRecent ==
  /\ options \in DistinctLists(2, NumLabels)
  /\ optionsHistory = <<>>
  /\ history = <<>>
  /\ historyHighlight = NoHighlight
  /\ isSpinning = FALSE
  /\ selectedIndex = Null
  /\ rotation = 0
  /\ prevOptionsRef = options
  /\ lastHistoryRequestIdRef = NoRequest
  /\ spinTimers = <<>>
  /\ isApplyingPresetRef = FALSE
  /\ lastAppliedPresetRef = <<>>
  /\ now = 0
  /\ spinStartCalls = 0
  /\ results = <<>>
  /\ recentPresets \in StoredRecentPresets
  /\ customSceneNames = NoSceneNames
  /\ addTimers = <<>>
  /\ geom = GeomIdle

NextRecent ==
  \/ Spin
  \/ Settle

SpecRecent == InitRecent /\ [][NextRecent]_vars

(* ---------------------------------------------------------------------- *)
(* The editor with its deferred add, on short lists and lists at the cap   *)
(* ---------------------------------------------------------------------- *)
AddEditorOption == \E text \in EditorLabels : AddText(text)

InitEditor ==
  /\ options \in DistinctLists(2, 2) \cup LongLists
  /\ history \in {<<e>> : e \in {s \in StoredEntries : s.options = <<"no", "a">> /\ s.index = 0}}
  /\ optionsHistory = <<>>
  /\ historyHighlight = NoHighlight
  /\ isSpinning = FALSE
  /\ selectedIndex = Null
  /\ rotation = 0
  /\ prevOptionsRef = options
  /\ lastHistoryRequestIdRef = NoRequest
  /\ spinTimers = <<>>
  /\ isApplyingPresetRef = FALSE
  /\ lastAppliedPresetRef = <<>>
  /\ now = 0
  /\ spinStartCalls = 0
  /\ results = <<>>
  /\ recentPresets = <<>>
  /\ customSceneNames = NoSceneNames
  /\ addTimers = <<>>
  /\ geom = GeomIdle

NextEditor ==
  \/ AddEditorOption
  \/ RemoveOption
  \/ SaveEdit
  \/ ApplyPreset
  \/ PresetApplied
  \/ Undo
  \/ HistoryClick
  \/ BlurAdd
  \/ DeferredAdd

SpecEditor == InitEditor /\ [][NextEditor]_vars

(* ---------------------------------------------------------------------- *)
(* The geometry on its own: target rotation of slice t of n, and the index *)
(* recovered from it                                                       *)
(* ---------------------------------------------------------------------- *)
GeomInputs ==
  {[n |-> n, t |-> t, targetRotation |-> 0, index |-> 0, done |-> FALSE] :
     n \in 2..MaxOptions, t \in 0..(MaxOptions - 1)}

ComputeGeom ==
  /\ ~geom.done
  /\ geom' = [geom EXCEPT !.targetRotation = targetRotation(geom.t, geom.n),
                          !.index = calculateIndexFromRotation(targetRotation(geom.t, geom.n), geom.n),
                          !.done = TRUE]
  /\ UNCHANGED <<appVars, wheelVars, spinTimers, editorVars, now, spinStartCalls, results,
                 recentPresets, customSceneNames, addTimers>>

InitGeom ==
  /\ options = <<"yes", "no">>
  /\ optionsHistory = <<>>
  /\ history = <<>>
  /\ historyHighlight = NoHighlight
  /\ isSpinning = FALSE
  /\ selectedIndex = Null
  /\ rotation = 0
  /\ prevOptionsRef = options
  /\ lastHistoryRequestIdRef = NoRequest
  /\ spinTimers = <<>>
  /\ isApplyingPresetRef = FALSE
  /\ lastAppliedPresetRef = <<>>
  /\ now = 0
  /\ spinStartCalls = 0
  /\ results = <<>>
  /\ recentPresets = <<>>
  /\ customSceneNames = NoSceneNames
  /\ addTimers = <<>>
  /\ geom \in {g \in GeomInputs : g.t < g.n}

NextGeom == ComputeGeom

SpecGeom == InitGeom /\ [][NextGeom]_vars

(* ---------------------------------------------------------------------- *)
(* Properties                                                              *)
(* ---------------------------------------------------------------------- *)

\* C1: for every N in 2..12 and every t in [0,N), the index recovered from
\* targetRotation(t, N) is t; for N = 4 and t = 2 the target rotation is 135
\* degrees and the recovered index is 2.
C1_RoundTrip ==
  geom.done =>
    /\ geom.index = geom.t
    /\ (geom.n = 4 /\ geom.t = 2) => (geom.targetRotation = 135 * Deg /\ geom.index = 2)

\* a step in which a pending settle callback runs
SettleStep == Len(spinTimers') < Len(spinTimers)

\* the label under the pointer
pointerLabel(opts, rot) == At(opts, calculateIndexFromRotation(rot, Len(opts)))

\* C2: when an accepted spin on N >= 2 options settles, selectedIndex is in
\* [0,N) and equals the targetIndex that spin() chose.
C2_SettledIndexIsTarget ==
  [][\A k \in 1..Len(spinTimers) :
       spinTimers' = RemoveAt(spinTimers, k) =>
         /\ selectedIndex' = spinTimers[k].targetIndex
         /\ selectedIndex' >= 0
         /\ selectedIndex' < Len(spinTimers[k].options)]_vars

\* C3: when, while not spinning, the option list is replaced by a permutation
\* of the same N >= 2 distinct labels (and no replay jump is applied in that
\* step), the label under the pointer after the adjustment, read in the new
\* order, is the label that was under the pointer before, read in the old order.
C3_ReorderKeepsPointerLabel ==
  [][(/\ ~isSpinning
      /\ Len(options) >= 2
      /\ options' # options
      /\ Len(options') = Len(options)
      /\ Range(options') = Range(options)
      /\ lastHistoryRequestIdRef' = lastHistoryRequestIdRef)
     => pointerLabel(options', rotation') = pointerLabel(options, rotation)]_vars

\* a wheel of three options that no spin has turned, rotated backwards by a
\* reorder adjustment
C3_Witness ==
  /\ Len(options) = 3
  /\ spinStartCalls = 0
  /\ lastHistoryRequestIdRef = NoRequest
  /\ rotation < 0

\* C4: the result sink is invoked exactly once by each settle and by no other
\* step (rejected spin, option change, reorder adjustment, history jump), so
\* the number of invocations is the number of accepted spins that have settled.
C4_ResultOncePerSettledSpin ==
  [][/\ IF SettleStep THEN Len(results') = Len(results) + 1 ELSE results' = results
     /\ Len(results') + Len(spinTimers') = spinStartCalls']_vars

\* a spin has settled and a history jump has been applied since
C4_Witness ==
  /\ Len(results) = 1
  /\ ~isSpinning
  /\ lastHistoryRequestIdRef = 1

\* C5: the settle callback of a spin recovers the index with the option count
\* of the list spin() was called on and hands the result sink the label at
\* that index of that list, whatever the option list is at settle.
C5_SettleUsesSpinTimeList ==
  [][/\ Len(spinTimers') > Len(spinTimers) =>
          spinTimers'[Len(spinTimers')].options = options
     /\ SettleStep =>
          LET tm == spinTimers[1]
              idx == calculateIndexFromRotation(tm.totalRotation, Len(tm.options))
          IN /\ Len(results') > 0
             /\ results'[Len(results')] = [result |-> At(tm.options, idx), index |-> idx]]_vars

\* a spin on three options settled on its last slice after an option was
\* removed in flight
C5_Witness ==
  /\ Len(results) = 1
  /\ results[1].index = 2
  /\ selectedIndex = 2
  /\ Len(options) = 2

\* C6: in every reachable state selectedIndex is none or an index of the
\* current option list.
C6_SelectedIndexInRange ==
  selectedIndex = Null \/ (selectedIndex >= 0 /\ selectedIndex < Len(options))

\* C7: whenever the wheel is not spinning and shows a selection, selectedIndex
\* is the index the inverse mapping gives for the accumulated angle and the
\* current option count.
C7_SelectedIndexDerived ==
  (~isSpinning /\ selectedIndex # Null) =>
    selectedIndex = calculateIndexFromRotation(rotation, Len(options))

\* C8: spin() while a spin is in flight leaves the accumulated angle, the
\* pending settle, selectedIndex, the spinning flag and both sinks untouched.
C8_SpinWhileSpinningIsNoOp ==
  [][(isSpinning /\ Spin) =>
       UNCHANGED <<rotation, spinTimers, selectedIndex, isSpinning, spinStartCalls,
                   results, history>>]_vars

\* a spin is in flight, and the bound on settled spins leaves room for another
C8_Witness ==
  /\ isSpinning
  /\ Len(spinTimers) = 1
  /\ Len(results) < MaxSpins

\* C9: spin() on fewer than two options changes nothing: angle, spinning
\* flag, selectedIndex, pending settles and both sinks stay as they were.
C9_SpinOnDegenerateListIsNoOp ==
  [][(Len(options) < 2 /\ Spin) =>
       UNCHANGED <<rotation, isSpinning, selectedIndex, spinTimers, spinStartCalls,
                   results, history>>]_vars

\* an idle wheel that a reorder adjustment has turned and that is then left
\* with fewer than two options; the bound on settled spins does not hold
\* spin() back
C9_Witness ==
  /\ Len(options) < 2
  /\ ~isSpinning
  /\ rotation # 0
  /\ Len(results) < MaxSpins

\* the settle timer of an accepted spin fires
SpecLive == Spec /\ WF_vars(Settle)

\* C10: every accepted spin settles: spinning = true leads to spinning = false,
\* whatever option edits, preset applications, undos or history clicks happen
\* in between.
C10_SpinSettles == isSpinning ~> ~isSpinning

\* a spin has settled although the option list was replaced through the
\* editor and a history pill was clicked since the wheel was mounted
C10_Witness ==
  /\ ~isSpinning
  /\ Len(results) = 1
  /\ Len(optionsHistory) = 1
  /\ historyHighlight # NoHighlight

\* C11: the spin-started sink is invoked exactly once in the step that accepts
\* a spin (the step in which spinning turns true and the settle is scheduled)
\* and in no other step: not by a rejected spin(), and not by the settle, which
\* reports a result only for a spin whose start was reported before.
C11_SpinStartOncePerAcceptedSpin ==
  [][/\ spinStartCalls' =
          IF ~isSpinning /\ isSpinning' THEN spinStartCalls + 1 ELSE spinStartCalls
     /\ Len(spinTimers') > Len(spinTimers) => spinStartCalls' = spinStartCalls + 1
     /\ (Spin /\ ~spinAccepted(Wheel)) => spinStartCalls' = spinStartCalls
     /\ SettleStep => (spinStartCalls' = spinStartCalls /\ Len(results) < spinStartCalls)]_vars

\* the start of a spin was reported, its result not yet
C11_Witness ==
  /\ spinStartCalls = 1
  /\ isSpinning
  /\ results = <<>>

\* C12: while a spin is in flight no step other than its settle changes the
\* accumulated angle or selectedIndex (an option change or a history click in
\* that window included), and the settle leaves the angle at exactly the
\* terminal angle computed when the spin was accepted.
C12_AngleFrozenUntilSettle ==
  [][/\ (isSpinning /\ ~SettleStep) =>
          (rotation' = rotation /\ selectedIndex' = selectedIndex)
     /\ \A k \in 1..Len(spinTimers) :
          spinTimers' = RemoveAt(spinTimers, k) => rotation' = spinTimers[k].totalRotation]_vars

\* C13: every step that changes the option list (its length, a label or the
\* order) and applies no history jump leaves selectedIndex none, so a result
\* is shown only for the list it was drawn on.
C13_ListChangeClearsSelection ==
  [][(options' # options /\ lastHistoryRequestIdRef' = lastHistoryRequestIdRef)
       => selectedIndex' = Null]_vars

\* C14: a replay request whose snapshot differs from the current option list
\* (in length or in a label at some position) is ignored when it is issued:
\* the accumulated angle, selectedIndex and the spinning flag stay as they were
\* and the request is not recorded as processed.
C14_StaleJumpIgnored ==
  [][(historyHighlight' # historyHighlight /\ historyHighlight'.options # options')
       => UNCHANGED <<rotation, selectedIndex, isSpinning, lastHistoryRequestIdRef>>]_vars

\* an idle wheel showing the result of a settled spin holds a request whose
\* snapshot has the length of the current list and differs in a label
C14_Witness ==
  /\ historyHighlight # NoHighlight
  /\ historyHighlight.options # options
  /\ Len(historyHighlight.options) = Len(options)
  /\ Len(options) >= 2
  /\ ~isSpinning
  /\ selectedIndex # Null
  /\ lastHistoryRequestIdRef = NoRequest

\* C15: a replay request that is applied (wheel not spinning, N >= 2, snapshot
\* equal to the current list) turns the wheel by a delta with
\* -180 < delta <= 180 degrees to an angle congruent mod 360 to
\* targetRotation(targetIndex, N), and sets selectedIndex to targetIndex.
C15_JumpTakesShorterDirection ==
  [][lastHistoryRequestIdRef' # lastHistoryRequestIdRef =>
       LET from == IF SettleStep THEN spinTimers[1].totalRotation ELSE rotation
           n == Len(options')
           hh == historyHighlight'
           clamped == IF hh.index < 0 THEN 0 ELSE hh.index
           targetIndex == IF clamped < n - 1 THEN clamped ELSE n - 1
           delta == rotation' - from
       IN /\ ~isSpinning'
          /\ n >= 2
          /\ hh.options = options'
          /\ (0 - 180) * Deg < delta
          /\ delta <= 180 * Deg
          /\ (rotation' - targetRotation(targetIndex, n)) % Full = 0
          /\ selectedIndex' = targetIndex]_vars

\* a jump was applied and left the wheel at a negative angle
C15_Witness ==
  /\ lastHistoryRequestIdRef # NoRequest
  /\ lastHistoryRequestIdRef = historyHighlight.requestId
  /\ options = historyHighlight.options
  /\ selectedIndex = historyHighlight.index
  /\ rotation < 0

\* C16: on N >= 2 options, from whatever angle the wheel has, the equally
\* likely values of Math.random() give each index of [0,N) as targetIndex
\* equally often and no other index, and for every number of extra turns the
\* same holds for the index the spin settles on.
C16_UniformResult ==
  LET n == Len(options)
      draws == 0..(RandomUnits - 1)
      settled(u, reduced, j) == settleIndex(spinTimer(Wheel, randomIndex(u, n), reduced, j))
  IN n >= 2 =>
       /\ \A u \in draws : randomIndex(u, n) \in 0..(n - 1)
       /\ \A i \in 0..(n - 1) :
            Cardinality({u \in draws : randomIndex(u, n) = i}) = RandomUnits \div n
       /\ \A reduced \in BOOLEAN, j \in 0..(SpinSteps - 1) :
            /\ \A u \in draws : settled(u, reduced, j) \in 0..(n - 1)
            /\ \A i \in 0..(n - 1) :
                 Cardinality({u \in draws : settled(u, reduced, j) = i}) = RandomUnits \div n

\* a spin accepted from a negative angle drew the last index as its target
C16_Witness ==
  /\ isSpinning
  /\ rotation < 0
  /\ Len(spinTimers) = 1
  /\ spinTimers[1].targetIndex = Len(spinTimers[1].options) - 1

\* C17: in every reachable state in which no preset application is in
\* progress, a click on a preset chip leaves the option list equal to that
\* preset's options.
C17_PresetClickSwitches ==
  ~isApplyingPresetRef =>
    \A p \in 1..Len(PRESETS) :
      applyPreset(options, optionsHistory, isApplyingPresetRef, lastAppliedPresetRef,
                  PRESETS[p].options).options = PRESETS[p].options

\* C18: when a spin is accepted at accumulated angle a with target index t on
\* N options, its terminal angle is a + 360k + delta with
\* delta = (targetRotation(t, N) - (a mod 360) + 360) mod 360 in [0,360) and k
\* a whole number of turns, k >= 4; so it is congruent to targetRotation(t, N)
\* mod 360 and greater than a.
C18_TerminalAngle ==
  [][Len(spinTimers') > Len(spinTimers) =>
       LET tm == spinTimers'[Len(spinTimers')]
           target == targetRotation(tm.targetIndex, Len(tm.options))
           delta == JsMod(target - JsMod(rotation, Full) + Full, Full)
           turns == tm.totalRotation - rotation - delta
       IN /\ delta >= 0
          /\ delta < Full
          /\ turns % Full = 0
          /\ turns >= 4 * Full
          /\ (tm.totalRotation - target) % Full = 0
          /\ tm.totalRotation > rotation]_vars

\* C19: a replay request is applied in the step that issues it or not at all:
\* every step that applies a jump (records a request id as processed) is the
\* step in which that request was handed to the wheel, so a request ignored
\* while spinning or for a stale snapshot is not applied by a later settle or
\* option change, and no request is applied twice.
C19_JumpNowOrNever ==
  [][lastHistoryRequestIdRef' # lastHistoryRequestIdRef =>
       /\ historyHighlight' # historyHighlight
       /\ lastHistoryRequestIdRef' = historyHighlight'.requestId]_vars

\* C20: in every reachable state exactly one settle callback is pending when
\* spinning is true and none when it is false, and the invocations of the
\* spin-started sink exceed those of the result sink by that number (0 or 1).
C20_AtMostOneSpinInFlight ==
  /\ Len(spinTimers) = (IF isSpinning THEN 1 ELSE 0)
  /\ spinStartCalls - Len(results) = Len(spinTimers)
  /\ spinStartCalls - Len(results) \in {0, 1}

\* a spin is in flight on a list that was edited since the spin was accepted,
\* and spin() can be called again
C20_Witness ==
  /\ isSpinning
  /\ Len(spinTimers) = 1
  /\ spinTimers[1].options # options
  /\ Len(options) >= 2
  /\ Len(results) < MaxSpins

\* C21: after every accepted spin the recent presets start with the option
\* list the spin was accepted on, hold no list twice and at most 5 lists, and
\* the entries after the first are the earlier entries other than that list in
\* their earlier order, cut at the end to fit.
C21_RecentPresetsMRU ==
  [][Len(spinTimers') > Len(spinTimers) =>
       LET others(x) == x # options
       IN /\ Len(recentPresets') >= 1
          /\ recentPresets'[1] = options
          /\ Len(recentPresets') <= RecentLimit
          /\ \A a, b \in 1..Len(recentPresets') :
               a # b => recentPresets'[a] # recentPresets'[b]
          /\ Tail(recentPresets') = Take(SelectSeq(recentPresets, others), RecentLimit - 1)]_vars

\* a spin on a list that was not among five stored lists
C21_Witness ==
  /\ spinStartCalls = 1
  /\ Len(recentPresets) = RecentLimit
  /\ Len(recentPresets[1]) = 3
  /\ recentPresets[1] = spinTimers[1].options

\* C22: in every reachable state the result history has at most 5 entries, its
\* first entry is the result of the most recently settled spin, and no two
\* entries have the same option list and the same result.
C22_HistoryBoundedDeduplicated ==
  /\ Len(history) <= HistoryLimit
  /\ Len(results) > 0 =>
       /\ Len(history) > 0
       /\ history[1].result = results[Len(results)].result
       /\ history[1].index = results[Len(results)].index
  /\ \A a, b \in 1..Len(history) :
       (a # b /\ history[a].options = history[b].options) => history[a].result # history[b].result

\* C23: in every reachable state, a tracked applyOptions(next) with next
\* different from the current list followed at once by undoLastOptionsChange
\* gives back the list and the undo stack as they were; two tracked changes
\* are undone last first; undo on an empty stack changes nothing; and canUndo
\* holds exactly when the stack is not empty.
C23_UndoInvertsTrackedChange ==
  LET here == [options |-> options, optionsHistory |-> optionsHistory]
      change(st, next) == applyOptions(st.options, st.optionsHistory, next, TRUE)
      undo(st) == undoLastOptionsChange(st.options, st.optionsHistory)
  IN /\ \A next \in DistinctLists(2, NumLabels) :
          next # options =>
            /\ change(here, next).options = next
            /\ undo(change(here, next)) = here
            /\ \A next2 \in DistinctLists(2, NumLabels) :
                 next2 # next =>
                   /\ undo(change(change(here, next), next2)) = change(here, next)
                   /\ undo(undo(change(change(here, next), next2))) = here
     /\ ~canUndo(optionsHistory) => undo(here) = here
     /\ canUndo(optionsHistory) <=> optionsHistory # <<>>
     /\ canUndo(optionsHistory) =>
          undo(here) = [options |-> optionsHistory[Len(optionsHistory)],
                        optionsHistory |-> SubSeq(optionsHistory, 1, Len(optionsHistory) - 1)]

\* the application of a preset was undone
C23_Witness ==
  /\ optionsHistory = <<>>
  /\ history = <<>>
  /\ lastAppliedPresetRef = <<"yes", "no">>
  /\ options # <<"yes", "no">>

\* C24: in every reachable state, handing the editor's onChange a pure reorder
\* of the current list (same length, every label of the new list in the old
\* one, another order) makes the reordered list current and leaves the undo
\* stack as it was.
C24_ReorderKeepsUndoStack ==
  \A next \in DistinctLists(2, NumLabels) :
    (Len(next) = Len(options) /\ Range(next) \subseteq Range(options) /\ next # options)
      => onChange(options, optionsHistory, next) = [options |-> next, optionsHistory |-> optionsHistory]

\* a preset that reorders the list was applied to a wheel no spin has turned:
\* the wheel was turned to follow, the undo stack is empty
C24_Witness ==
  /\ lastAppliedPresetRef = <<"yes", "no">>
  /\ options = <<"yes", "no">>
  /\ optionsHistory = <<>>
  /\ spinStartCalls = 0
  /\ rotation # 0

\* C25: every step that changes the option list, is not an undo and is not a
\* pure reorder (an add, a remove, an edit, a preset application, a click on
\* a history entry) pushes the replaced list on the undo stack, so that an
\* undo right after it makes the replaced list current again.
C25_ChangesAreTracked ==
  [][(/\ options' # options
      /\ Len(optionsHistory') >= Len(optionsHistory)
      /\ ~(Len(options') = Len(options) /\ Range(options') \subseteq Range(options)))
     => /\ optionsHistory' = Append(optionsHistory, options)
        /\ undoLastOptionsChange(options', optionsHistory').options = options]_vars

\* C27: when the timer of a blurred add input fires, the typed label is
\* appended to the list that is current at that moment (or rejected against
\* it), so a change made between the blur and the firing, such as a preset
\* applied by the click that caused the blur, is still in the list.
C27_DeferredAddUsesCurrentList ==
  [][(Len(addTimers) > 0 /\ addTimers' = Tail(addTimers))
     => options' = addOption(options, addTimers[1].newOption)]_vars

wellFormed(opts) ==
  /\ Len(opts) >= 2
  /\ Len(opts) <= MaxOptions
  /\ \A i \in 1..Len(opts) : opts[i] # ""
  /\ Cardinality(Range(opts)) = Len(opts)

\* C26: the option list always holds between 2 and 12 labels, all distinct
\* and none empty: add, remove, edit, preset application, undo and the click
\* on a history entry keep it so, also for a typed text that is blank, a
\* duplicate, or one label too many.
C26_ListStaysWellFormed ==
  /\ wellFormed(options)
  /\ \A k \in 1..Len(optionsHistory) : wellFormed(optionsHistory[k])
  /\ \A k \in 1..Len(history) : wellFormed(history[k].options)
  /\ \A text \in EditorLabels : wellFormed(addOption(options, text))
  /\ \A index \in 0..(Len(options) - 1) : wellFormed(saveEdit(options, index, ""))

\* a list of 11 has grown to the limit by the add of "k"
C26_Witness ==
  /\ Len(options) = MaxOptions
  /\ "k" \in Range(options)
  /\ Len(optionsHistory) = 1
  /\ Len(optionsHistory[1]) = MaxOptions - 1

\* C28: all history entries with the same option list carry the same scene
\* name, the one getSceneName gives for the list under the saved custom
\* names; this includes the entry of a spin that was in flight when the
\* custom name was saved or deleted.
C28_SceneNamesConsistent ==
  \A i \in 1..Len(history) :
    /\ history[i].sceneName = getSceneName(customSceneNames, history[i].options)
    /\ \A j \in 1..Len(history) :
         history[i].options = history[j].options => history[i].sceneName = history[j].sceneName

\* C29: every history entry is self-consistent: its index lies within its
\* own option list and its result is the label at that index of that list,
\* also when the live list was changed while the spin was in flight.
C29_HistoryEntriesSelfConsistent ==
  \A k \in 1..Len(history) :
    /\ history[k].index >= 0
    /\ history[k].index < Len(history[k].options)
    /\ history[k].result = At(history[k].options, history[k].index)

\* a spin has settled after the list it started on was replaced by one of
\* another length (a later change of length would have cleared the selection)
C29_Witness ==
  /\ Len(results) = 1
  /\ Len(history) = 1
  /\ now = 0
  /\ optionsHistory = <<history[1].options>>
  /\ Len(options) # Len(history[1].options)
  /\ selectedIndex # Null

\* C30: while a spin is in flight no slice is selected: accepting the spin
\* clears the selection and no option change, history click or reorder sets
\* one before the settle.
C30_NoSelectionWhileSpinning ==
  isSpinning => selectedIndex = Null

\* a history pill whose list is the wheel's list was clicked while the wheel
\* spins; the request waits
C30_Witness ==
  /\ isSpinning
  /\ historyHighlight # NoHighlight
  /\ historyHighlight.options = options
  /\ lastHistoryRequestIdRef # historyHighlight.requestId
  /\ selectedIndex = Null

====
